---- MODULE Spec2Model ----
(***************************************************************************)
(* Model of the KeepAlive link manager (src/index.js).                     *)
(*                                                                         *)
(* The program is a single Node.js process.  Every handler runs            *)
(* synchronously until it awaits a probe (pingUrl) or, in the sweep, the   *)
(* pacing delay; each action below is one such synchronous segment.  A     *)
(* handler works on its own copy of the document, parsed from links.json   *)
(* by readLinksData, and writes the whole copy back with writeLinksData.   *)
(*                                                                         *)
(* Fields that feed no decision of the program (the endpoints' timestamps, *)
(* responseTime, lastError text) are left out of the endpoint records;     *)
(* stats.lastUpdate is kept, as the number of the save that stamped it.    *)
(***************************************************************************)
EXTENDS Integers, Sequences, FiniteSets, TLC

\* ---------------------------------------------------------------- bounds
\* number of HTTP requests that may be suspended in a probe at once
MaxReq == 2
\* number of operations (handler calls and sweeps) started in a run
MaxOps == 3

Slots == 1..MaxReq

\* ----------------------------------------------------------- input space
\* generateCode draws from [A-Z0-9]{6}; two of its values stand for all
Codes == {"AAAAA1", "AAAAA2"}

\* what a caller may put in :code (lookups upper-case it)
CodeInputs == Codes \cup {"aaaaa1", "aaaaa2", "ZZZZZ9"}

\* a url is a sequence of tokens: blanks, a scheme, a host
SP == " "
UrlInputs ==
    { <<>>,
      <<"https:", "a">>,
      <<SP, "https:", "a", SP>>,
      <<"http:", "b">>,
      <<"ftp:", "c">>,
      <<"a">> }

\* outcomes of one HTTP GET: a response with a status, or a transport failure
Outcomes ==
    { [kind |-> "response", http |-> 200],
      [kind |-> "response", http |-> 404],
      [kind |-> "response", http |-> 500],
      [kind |-> "timeout", http |-> 0],
      [kind |-> "refused", http |-> 0],
      [kind |-> "dns", http |-> 0] }

\* --------------------------------------------------------------- helpers
toUpperCase(s) ==
    CASE s = "aaaaa1" -> "AAAAA1"
      [] s = "aaaaa2" -> "AAAAA2"
      [] OTHER -> s

RECURSIVE trimStart(_)
trimStart(u) ==
    IF u # <<>> /\ Head(u) = SP THEN trimStart(Tail(u)) ELSE u

RECURSIVE trimEnd(_)
trimEnd(u) ==
    IF u # <<>> /\ u[Len(u)] = SP THEN trimEnd(SubSeq(u, 1, Len(u) - 1)) ELSE u

\* String.prototype.trim
trim(u) == trimEnd(trimStart(u))

\* new URL(url) strips surrounding blanks, then needs scheme and host
isValidUrl(u) ==
    LET t == trim(u)
    IN  /\ Len(t) = 2
        /\ t[1] \in {"https:", "http:"}

\* variant: validateStatus accepting every status
validateStatusAny(http) == TRUE

\* axios' default validateStatus: the promise resolves only for 2xx
validateStatus(http) == http >= 200 /\ http < 300

axiosResolves(o) == o.kind = "response" /\ validateStatus(o.http)

\* variant: the failure branch reports statusCode 0 whatever the error holds
pingUrlZeroCode(o) ==
    IF axiosResolves(o)
    THEN [success |-> TRUE, status |-> "online", statusCode |-> o.http]
    ELSE [success |-> FALSE, status |-> "offline", statusCode |-> 0]

\* variant: the failure branch calls an endpoint that answered "online"
pingUrlReachable(o) ==
    IF axiosResolves(o)
    THEN [success |-> TRUE, status |-> "online", statusCode |-> o.http]
    ELSE [success |-> FALSE,
          status |-> IF o.kind = "response" THEN "online" ELSE "offline",
          statusCode |-> IF o.kind = "response" /\ o.http # 0 THEN o.http ELSE 0]

pingUrl(o) ==
    IF axiosResolves(o)
    THEN [success |-> TRUE, status |-> "online", statusCode |-> o.http]
    ELSE [success |-> FALSE, status |-> "offline",
          statusCode |-> IF o.kind = "response" /\ o.http # 0 THEN o.http ELSE 0]

\* variant: totalChecks is not incremented
updateLinkStatusNoCount(linkData, o) ==
    LET pingResult == pingUrl(o)
    IN  [linkData EXCEPT
            !.status = pingResult.status,
            !.statusCode = pingResult.statusCode,
            !.failCount = IF pingResult.success THEN 0 ELSE linkData.failCount + 1]

\* variant: failCount is not reset on success
updateLinkStatusNoReset(linkData, o) ==
    LET pingResult == pingUrl(o)
    IN  [linkData EXCEPT
            !.status = pingResult.status,
            !.statusCode = pingResult.statusCode,
            !.failCount = IF pingResult.success THEN linkData.failCount
                          ELSE linkData.failCount + 1,
            !.totalChecks = linkData.totalChecks + 1]

updateLinkStatus(linkData, o) ==
    LET pingResult == pingUrl(o)
    IN  [linkData EXCEPT
            !.status = pingResult.status,
            !.statusCode = pingResult.statusCode,
            !.failCount = IF pingResult.success THEN 0 ELSE linkData.failCount + 1,
            !.totalChecks = linkData.totalChecks + 1]

\* variant: activeLinks counts every endpoint
activeCountAll(links) == Len(links)

\* data.links.filter(l => l.status === "online").length
activeCount(links) ==
    Cardinality({i \in 1..Len(links) : links[i].status = "online"})

\* variant: a miss is not told apart from an index; -1 then addresses the
\* last element, as in splice(-1, 1)
findIndexByCodeLast(links, c) ==
    IF \E i \in 1..Len(links) : links[i].code = c
    THEN CHOOSE i \in 1..Len(links) :
            /\ links[i].code = c
            /\ \A j \in 1..(i - 1) : links[j].code # c
    ELSE Len(links)

\* data.links.findIndex(l => l.code === c), 0 for -1
findIndexByCode(links, c) ==
    IF \E i \in 1..Len(links) : links[i].code = c
    THEN CHOOSE i \in 1..Len(links) :
            /\ links[i].code = c
            /\ \A j \in 1..(i - 1) : links[j].code # c
    ELSE 0

\* variant: the duplicate check finds nothing
findIndexByUrlNone(links, u) == 0

\* data.links.find(l => l.url === u), as an index, 0 for undefined
findIndexByUrl(links, u) ==
    IF \E i \in 1..Len(links) : links[i].url = u
    THEN CHOOSE i \in 1..Len(links) :
            /\ links[i].url = u
            /\ \A j \in 1..(i - 1) : links[j].url # u
    ELSE 0

\* Array.prototype.splice(idx, 1)
splice(links, idx) ==
    SubSeq(links, 1, idx - 1) \o SubSeq(links, idx + 1, Len(links))

\* variant: the generated code is not compared with the existing codes
codesOfNone(links) == {}

\* data.links.some(l => l.code === code) is code \in codesOf(data.links)
codesOf(links) == {links[i].code : i \in 1..Len(links)}

\* Math.round(((totalChecks || 1) - (failCount || 0)) / (totalChecks || 1) * 100)
\* for the non-negative quotients the program can form, and rounding toward
\* +infinity at .5 as Math.round does
successRate(link) ==
    LET totalChecks == IF link.totalChecks = 0 THEN 1 ELSE link.totalChecks
        n == 200 * (totalChecks - link.failCount) + totalChecks
        d == 2 * totalChecks
    IN  IF n >= 0 THEN n \div d ELSE -((-n + d - 1) \div d)

\* time is counted in saves: lastUpdate is the number of the save that stamped
\* the document, 0 for the document initLinksFile creates
initialData ==
    [links |-> <<>>,
     stats |-> [totalLinks |-> 0, activeLinks |-> 0, lastUpdate |-> 0]]

\* ----------------------------------------------------------------- state
VARIABLES
    disk,         \* the document in links.json
    req,          \* per slot: an HTTP handler suspended in its probe
    sweep,        \* the pingAllLinks run in progress, if any
    ops,          \* operations started so far
    ev,           \* the last handler segment that ran and what it answered
    undisturbed,  \* history: no two operations overlapped, no save failed
    probes,       \* history: probes performed per code (while undisturbed)
    streak,       \* history: consecutive failed probes per code (while undisturbed)
    deleted,      \* history: codes deleted and persisted, not registered again
    registered    \* history: codes whose add answered success, delete not yet called

vars == <<disk, req, sweep, ops, ev, undisturbed, probes, streak, deleted, registered>>

Idle == [pc |-> "idle", data |-> initialData, code |-> "", url |-> <<>>, idx |-> 0]

SweepIdle == [pc |-> "idle", data |-> initialData, i |-> 0]

\* the probe a segment performed: whether the GET got an HTTP response, its
\* status, and what pingUrl returned for it
NoPing == [probed |-> FALSE, responded |-> FALSE, http |-> 0,
           success |-> FALSE, status |-> "", statusCode |-> 0]

Ping(o) ==
    [probed |-> TRUE, responded |-> o.kind = "response", http |-> o.http,
     success |-> pingUrl(o).success, status |-> pingUrl(o).status,
     statusCode |-> pingUrl(o).statusCode]

Event(op, resp, code, saved, ping) ==
    [op |-> op, resp |-> resp, code |-> code, saved |-> saved, ping |-> ping]

\* requests are told apart by the slot they occupy; a new one takes the lowest
FreeSlot(s) ==
    /\ req[s].pc = "idle"
    /\ \A t \in 1..(s - 1) : req[t].pc # "idle"

ZeroCount == [c \in Codes |-> 0]

readLinksData == disk

\* writeLinksData(data) with the outcome ok of fs.writeFileSync; a write that
\* throws is taken to leave the file as it was
writeLinksData(data, ok) ==
    disk' = IF ok
            THEN [data EXCEPT !.stats.lastUpdate = disk.stats.lastUpdate + 1]
            ELSE disk

InFlight == sweep.pc # "idle" \/ \E s \in Slots : req[s].pc # "idle"

Init ==
    /\ disk = initialData
    /\ req = [s \in Slots |-> Idle]
    /\ sweep = SweepIdle
    /\ ops = 0
    /\ ev = Event("init", "", "", "none", NoPing)
    /\ undisturbed = TRUE
    /\ probes = ZeroCount
    /\ streak = ZeroCount
    /\ deleted = {}
    /\ registered = {}


\* history bookkeeping shared by the actions: bad is "this segment started an
\* operation while another was in flight, or its save failed"
History(bad, newProbes, newStreak) ==
    /\ undisturbed' = (undisturbed /\ ~bad)
    /\ probes' = IF undisturbed' THEN newProbes ELSE ZeroCount
    /\ streak' = IF undisturbed' THEN newStreak ELSE ZeroCount

\* ------------------------------------------------------------ POST /add
\* first segment: validation, load, duplicate check, code generation; code is
\* the value the do-while loop ends with
AddCall(s, url, code) ==
    /\ FreeSlot(s)
    /\ ops < MaxOps
    /\ ops' = ops + 1
    /\ LET data == readLinksData
           normalized == trim(url)
           existing == findIndexByUrl(data.links, normalized)
       IN  IF url = <<>>
           THEN /\ ev' = Event("add", "UrlRequired", "", "none", NoPing)
                /\ UNCHANGED <<disk, req, sweep, undisturbed, probes, streak,
                               deleted, registered>>
           ELSE IF ~isValidUrl(url)
           THEN /\ ev' = Event("add", "InvalidURL", "", "none", NoPing)
                /\ UNCHANGED <<disk, req, sweep, undisturbed, probes, streak,
                               deleted, registered>>
           ELSE IF existing # 0
           THEN /\ ev' = Event("add", "Duplicate",
                               data.links[existing].code, "none", NoPing)
                /\ UNCHANGED <<disk, req, sweep, undisturbed, probes, streak,
                               deleted, registered>>
           ELSE /\ code \notin codesOf(data.links)
                /\ req' = [req EXCEPT ![s] =
                              [pc |-> "addPing", data |-> data, code |-> code,
                               url |-> normalized, idx |-> 0]]
                /\ ev' = Event("add", "pending", code, "none", NoPing)
                /\ deleted' = deleted \ {code}
                /\ History(InFlight, probes, streak)
                /\ UNCHANGED <<disk, sweep, registered>>

\* second segment: the probe has settled with outcome o; build the endpoint,
\* append, recompute stats, save (ok is the outcome of the write)
AddResume(s, o, ok) ==
    /\ req[s].pc = "addPing"
    /\ LET pingResult == pingUrl(o)
           newLink == [code |-> req[s].code,
                       url |-> req[s].url,
                       status |-> pingResult.status,
                       statusCode |-> pingResult.statusCode,
                       failCount |-> IF pingResult.success THEN 0 ELSE 1,
                       totalChecks |-> 1]
           links == Append(req[s].data.links, newLink)
           data == [links |-> links,
                    stats |-> [req[s].data.stats EXCEPT
                                  !.totalLinks = Len(links),
                                  !.activeLinks = activeCount(links)]]
       IN  /\ writeLinksData(data, ok)
           /\ ev' = Event("addResume", IF ok THEN "Added" ELSE "PersistError",
                          req[s].code, IF ok THEN "ok" ELSE "failed", Ping(o))
           /\ registered' = IF ok
                            THEN registered \cup {<<req[s].code, req[s].url>>}
                            ELSE registered
           /\ History(~ok,
                      [probes EXCEPT ![req[s].code] = 1],
                      [streak EXCEPT ![req[s].code] =
                                        IF pingResult.success THEN 0 ELSE 1])
           /\ deleted' = IF ok THEN deleted \ {req[s].code} ELSE deleted
    /\ req' = [req EXCEPT ![s] = Idle]
    /\ UNCHANGED <<sweep, ops>>

\* ----------------------------------------------------- GET /status/:code
StatusCall(s, arg) ==
    /\ FreeSlot(s)
    /\ ops < MaxOps
    /\ ops' = ops + 1
    /\ LET data == readLinksData
           linkIndex == findIndexByCode(data.links, toUpperCase(arg))
       IN  IF linkIndex = 0
           THEN /\ ev' = Event("status", "NotFound", "", "none", NoPing)
                /\ UNCHANGED <<disk, req, sweep, undisturbed, probes, streak,
                               deleted, registered>>
           ELSE /\ req' = [req EXCEPT ![s] =
                              [pc |-> "statusPing", data |-> data,
                               code |-> data.links[linkIndex].code,
                               url |-> data.links[linkIndex].url,
                               idx |-> linkIndex]]
                /\ ev' = Event("status", "pending",
                               data.links[linkIndex].code, "none", NoPing)
                /\ History(InFlight, probes, streak)
                /\ UNCHANGED <<disk, sweep, deleted, registered>>

StatusResume(s, o, ok) ==
    /\ req[s].pc = "statusPing"
    /\ LET linkIndex == req[s].idx
           updated == updateLinkStatus(req[s].data.links[linkIndex], o)
           links == [req[s].data.links EXCEPT ![linkIndex] = updated]
           data == [links |-> links,
                    stats |-> [req[s].data.stats EXCEPT
                                  !.activeLinks = activeCount(links)]]
       IN  /\ writeLinksData(data, ok)
           /\ ev' = Event("statusResume", "Status", updated.code,
                          IF ok THEN "ok" ELSE "failed", Ping(o))
           /\ History(~ok,
                      [probes EXCEPT ![updated.code] = @ + 1],
                      [streak EXCEPT ![updated.code] =
                                        IF pingUrl(o).success THEN 0 ELSE @ + 1])
    /\ req' = [req EXCEPT ![s] = Idle]
    /\ UNCHANGED <<sweep, ops, deleted, registered>>

\* -------------------------------------------------- DELETE /delete/:code
Delete(arg, ok) ==
    LET data == readLinksData
        idx == findIndexByCode(data.links, toUpperCase(arg))
    IN  /\ ops < MaxOps
        /\ ops' = ops + 1
        /\ registered' = {r \in registered : r[1] # toUpperCase(arg)}
        /\ IF idx = 0
           THEN /\ ev' = Event("delete", "NotFound", "", "none", NoPing)
                /\ UNCHANGED <<disk, req, sweep, undisturbed, probes, streak, deleted>>
           ELSE LET removed == data.links[idx]
                    links == splice(data.links, idx)
                    newData == [links |-> links,
                                stats |-> [data.stats EXCEPT
                                              !.totalLinks = Len(links),
                                              !.activeLinks = activeCount(links)]]
                IN  /\ writeLinksData(newData, ok)
                    /\ ev' = Event("delete", "Deleted",
                                   removed.code, IF ok THEN "ok" ELSE "failed", NoPing)
                    /\ deleted' = IF ok THEN deleted \cup {removed.code} ELSE deleted
                    /\ History(InFlight \/ ~ok,
                               [probes EXCEPT ![removed.code] = 0],
                               [streak EXCEPT ![removed.code] = 0])
                    /\ UNCHANGED <<req, sweep>>

\* ---------------------------------------------------------- pingAllLinks
\* one run at a time: the timers fire 30 s after start and every 10 minutes,
\* and a run over the few endpoints of this model ends long before the next
\* variant: the empty check is missing and the run goes on to its save
SweepStartNoEmptyCheck ==
    /\ sweep.pc = "idle"
    /\ ops < MaxOps
    /\ ops' = ops + 1
    /\ LET data == readLinksData
       IN  /\ sweep' = [pc |-> IF Len(data.links) = 0 THEN "save" ELSE "loop",
                        data |-> data, i |-> 1]
           /\ ev' = Event("sweepStart", "pending", "", "none", NoPing)
           /\ History(InFlight, probes, streak)
           /\ UNCHANGED <<disk, req, deleted, registered>>

SweepStart ==
    /\ sweep.pc = "idle"
    /\ ops < MaxOps
    /\ ops' = ops + 1
    /\ LET data == readLinksData
       IN  IF Len(data.links) = 0
           THEN /\ ev' = Event("sweepStart", "NoLinks", "", "none", NoPing)
                /\ UNCHANGED <<disk, req, sweep, undisturbed, probes, streak,
                               deleted, registered>>
           ELSE /\ sweep' = [pc |-> "loop", data |-> data, i |-> 1]
                /\ ev' = Event("sweepStart", "pending", "", "none", NoPing)
                /\ History(InFlight, probes, streak)
                /\ UNCHANGED <<disk, req, deleted, registered>>

\* variant: the loop body saves the document after every probe
SweepStepSavesEach(o) ==
    /\ sweep.pc = "loop"
    /\ LET i == sweep.i
           updated0 == updateLinkStatus(sweep.data.links[i], o)
           updated == [updated0 EXCEPT !.totalChecks = @ + 1]
           links == [sweep.data.links EXCEPT ![i] = updated]
           data == [sweep.data EXCEPT !.links = links]
       IN  /\ sweep' = [pc |-> IF i < Len(links) THEN "loop" ELSE "save",
                        data |-> data, i |-> i + 1]
           /\ writeLinksData(data, TRUE)
           /\ ev' = Event("sweepStep", "", updated.code, "ok", Ping(o))
           /\ History(FALSE,
                      [probes EXCEPT ![updated.code] = @ + 1],
                      [streak EXCEPT ![updated.code] =
                                        IF pingUrl(o).success THEN 0 ELSE @ + 1])
    /\ UNCHANGED <<req, ops, deleted, registered>>

\* variant: a failed probe ends the loop
SweepStepAbortsOnFailure(o) ==
    /\ sweep.pc = "loop"
    /\ LET i == sweep.i
           updated0 == updateLinkStatus(sweep.data.links[i], o)
           updated == [updated0 EXCEPT !.totalChecks = @ + 1]
           links == [sweep.data.links EXCEPT ![i] = updated]
       IN  /\ sweep' = [pc |-> IF i < Len(links) /\ pingUrl(o).success
                                THEN "loop" ELSE "save",
                        data |-> [sweep.data EXCEPT !.links = links],
                        i |-> i + 1]
           /\ ev' = Event("sweepStep", "", updated.code, "none", Ping(o))
           /\ History(FALSE,
                      [probes EXCEPT ![updated.code] = @ + 1],
                      [streak EXCEPT ![updated.code] =
                                        IF pingUrl(o).success THEN 0 ELSE @ + 1])
    /\ UNCHANGED <<disk, req, ops, deleted, registered>>

\* one iteration of the loop: the probe of link i has settled with outcome o,
\* the result is applied, and the pacing delay has elapsed
SweepStep(o) ==
    /\ sweep.pc = "loop"
    /\ LET i == sweep.i
           updated0 == updateLinkStatus(sweep.data.links[i], o)
           updated == [updated0 EXCEPT !.totalChecks = @ + 1]
           links == [sweep.data.links EXCEPT ![i] = updated]
       IN  /\ sweep' = [pc |-> IF i < Len(links) THEN "loop" ELSE "save",
                        data |-> [sweep.data EXCEPT !.links = links],
                        i |-> i + 1]
           /\ ev' = Event("sweepStep", "", updated.code, "none", Ping(o))
           /\ History(FALSE,
                      [probes EXCEPT ![updated.code] = @ + 1],
                      [streak EXCEPT ![updated.code] =
                                        IF pingUrl(o).success THEN 0 ELSE @ + 1])
    /\ UNCHANGED <<disk, req, ops, deleted, registered>>

SweepSave(ok) ==
    /\ sweep.pc = "save"
    /\ LET data == [sweep.data EXCEPT
                       !.stats.activeLinks = activeCount(sweep.data.links)]
       IN  /\ writeLinksData(data, ok)
           /\ ev' = Event("sweepSave", "", "",
                          IF ok THEN "ok" ELSE "failed", NoPing)
           /\ History(~ok, probes, streak)
    /\ sweep' = SweepIdle
    /\ UNCHANGED <<req, ops, deleted, registered>>

\* ------------------------------------------------------------------ spec
Next ==
    \/ \E s \in Slots, url \in UrlInputs, code \in Codes : AddCall(s, url, code)
    \/ \E s \in Slots, o \in Outcomes, ok \in BOOLEAN : AddResume(s, o, ok)
    \/ \E s \in Slots, arg \in CodeInputs : StatusCall(s, arg)
    \/ \E s \in Slots, o \in Outcomes, ok \in BOOLEAN : StatusResume(s, o, ok)
    \/ \E arg \in CodeInputs, ok \in BOOLEAN : Delete(arg, ok)
    \/ SweepStart
    \/ \E o \in Outcomes : SweepStep(o)
    \/ \E ok \in BOOLEAN : SweepSave(ok)

Spec == Init /\ [][Next]_vars


\* ======================================================================
\* Properties
\* ======================================================================

\* the endpoints of the persisted document
Persisted == {disk.links[i] : i \in 1..Len(disk.links)}

\* C1: every document in the Store has stats.totalLinks equal to its number
\* of endpoints and stats.activeLinks equal to its number of online endpoints
C1_StatsMatchLinks ==
    /\ disk.stats.totalLinks = Len(disk.links)
    /\ disk.stats.activeLinks =
          Cardinality({i \in 1..Len(disk.links) : disk.links[i].status = "online"})

\* a refresh (which recomputes activeLinks only) has just saved a document
\* holding an offline endpoint
C1_Witness ==
    /\ ev.op = "statusResume"
    /\ ev.saved = "ok"
    /\ Len(disk.links) >= 1
    /\ \E i \in 1..Len(disk.links) : disk.links[i].status = "offline"

\* C2: no two endpoints of the persisted document share a code, and no two
\* share a url
C2_UniqueCodeAndUrl ==
    \A i, j \in 1..Len(disk.links) :
        i # j => /\ disk.links[i].code # disk.links[j].code
                 /\ disk.links[i].url # disk.links[j].url

\* one add has saved its endpoint while another add of the same url, loaded
\* before that save, is still waiting for its probe
C2_Witness ==
    /\ ev.op = "addResume"
    /\ ev.saved = "ok"
    /\ \E s \in Slots : \E i \in 1..Len(disk.links) :
          /\ req[s].pc = "addPing"
          /\ req[s].url = disk.links[i].url

\* C3: add(url) for a url present in the persisted registry answers Duplicate
\* with the existing endpoint's code, starts no probe, writes nothing and
\* leaves the number of endpoints unchanged
C3_DuplicateAdd ==
    [][\A url \in UrlInputs :
          (/\ ev'.op = "add"
           /\ \E l \in Persisted : l.url = url
           /\ \E s \in Slots, code \in Codes : AddCall(s, url, code))
          => /\ ev'.resp = "Duplicate"
             /\ \E l \in Persisted : l.url = url /\ l.code = ev'.code
             /\ ~ev'.ping.probed
             /\ ev'.saved = "none"
             /\ req' = req
             /\ disk' = disk
             /\ Len(disk'.links) = Len(disk.links)]_vars

\* an add has just been answered Duplicate
C3_Witness ==
    /\ ev.op = "add"
    /\ ev.resp = "Duplicate"
    /\ \E l \in Persisted : l.code = ev.code

\* C4 as claimed: a probe succeeds (online) exactly when the GET completed
\* with some HTTP response, whatever its status
C4_OnlineIffAnyResponse ==
    ev.ping.probed =>
        /\ (ev.ping.success /\ ev.ping.status = "online") <=> ev.ping.responded
        /\ (~ev.ping.success /\ ev.ping.status = "offline") <=> ~ev.ping.responded

\* C4 amended: a probe succeeds (online) exactly when the GET completed with
\* a 2xx response; a response with another status, like a transport failure,
\* gives success=false and offline
C4_OnlineIff2xx ==
    ev.ping.probed =>
        /\ (ev.ping.success /\ ev.ping.status = "online")
              <=> (ev.ping.responded /\ ev.ping.http >= 200 /\ ev.ping.http < 300)
        /\ (~ev.ping.success /\ ev.ping.status = "offline")
              <=> ~(ev.ping.responded /\ ev.ping.http >= 200 /\ ev.ping.http < 300)

\* a probe got a 4xx/5xx response and was classified offline
C4_Witness ==
    /\ ev.ping.probed
    /\ ev.ping.responded
    /\ ev.ping.http >= 400
    /\ ~ev.ping.success
    /\ ev.ping.status = "offline"

\* C5 as claimed: a failed probe reports statusCode 0, and no persisted
\* endpoint is offline with a non-zero statusCode
C5_OfflineHasZeroCode ==
    /\ (ev.ping.probed /\ ~ev.ping.success) => ev.ping.statusCode = 0
    /\ \A l \in Persisted : l.status = "offline" => l.statusCode = 0

\* C5 amended: a failed probe reports statusCode 0 when no response was
\* received and the response's (non-2xx) status otherwise; a persisted offline
\* endpoint has statusCode 0 or a non-2xx status
C5_OfflineCode ==
    /\ (ev.ping.probed /\ ~ev.ping.success) =>
          ev.ping.statusCode = (IF ev.ping.responded THEN ev.ping.http ELSE 0)
    /\ \A l \in Persisted :
          l.status = "offline" =>
              \/ l.statusCode = 0
              \/ ~(l.statusCode >= 200 /\ l.statusCode < 300)

\* the document holds one endpoint stored offline with a response's status
\* and one stored offline without a response
C5_Witness ==
    /\ \E l \in Persisted : l.status = "offline" /\ l.statusCode >= 400
    /\ \E l \in Persisted : l.status = "offline" /\ l.statusCode = 0

C7_TotalChecksIsProbes ==
    (undisturbed /\ ~InFlight) =>
        \A l \in Persisted : l.totalChecks = probes[l.code]

\* C8: a code whose delete was answered success (and saved) resolves to no
\* endpoint afterwards, until a new registration is assigned that code
C8_DeletedStaysGone ==
    \A arg \in CodeInputs :
        toUpperCase(arg) \in deleted =>
            findIndexByCode(readLinksData.links, toUpperCase(arg)) = 0

\* C9: an endpoint whose add was answered success stays in the persisted
\* registry until delete is called with its code
C9_RegisteredStays ==
    \A r \in registered :
        \E l \in Persisted : l.code = r[1] /\ l.url = r[2]

\* C10: an add, refresh or remove whose save failed answers PersistError
C10_FailedSaveIsReported ==
    (ev.op \in {"addResume", "statusResume", "delete"} /\ ev.saved = "failed")
        => ev.resp = "PersistError"

\* C11: delete of a code that matches no persisted endpoint answers NotFound,
\* writes nothing and leaves the endpoints, totalLinks and activeLinks as
\* they were
C11_DeleteUnknown ==
    [][\A arg \in CodeInputs :
          (/\ ev'.op = "delete"
           /\ \A l \in Persisted : l.code # toUpperCase(arg)
           /\ \E ok \in BOOLEAN : Delete(arg, ok))
          => /\ ev'.resp = "NotFound"
             /\ ev'.saved = "none"
             /\ disk'.links = disk.links
             /\ disk'.stats.totalLinks = disk.stats.totalLinks
             /\ disk'.stats.activeLinks = disk.stats.activeLinks
             /\ disk' = disk]_vars

\* a delete has just been answered NotFound on a registry that is not empty
C11_Witness ==
    /\ ev.op = "delete"
    /\ ev.resp = "NotFound"
    /\ Len(disk.links) >= 1

\* C12: add and refresh load the document after their probe and save with no
\* suspension in between, so the document a change is applied to is the one
\* in the Store at the moment of the save
C12_LoadJustBeforeSave ==
    [][/\ \A s \in Slots, o \in Outcomes, ok \in BOOLEAN :
             AddResume(s, o, ok) => req[s].data = disk
       /\ \A s \in Slots, o \in Outcomes, ok \in BOOLEAN :
             StatusResume(s, o, ok) => req[s].data = disk]_vars

\* C13: a sweep between its load and its save never coexists with an add or
\* a refresh between its load and its save
C13_SweepSerialized ==
    ~(sweep.pc # "idle" /\ \E s \in Slots : req[s].pc # "idle")

\* C14: the save of an add, a refresh or a delete leaves the persisted status
\* of every endpoint other than the one it probed as it was
C14_OthersStatusKept ==
    [][(ev'.op \in {"addResume", "statusResume", "delete"})
          => \A l \in Persisted :
                \A i \in 1..Len(disk'.links) :
                    (/\ disk'.links[i].code = l.code
                     /\ disk'.links[i].url = l.url
                     /\ ~(ev'.ping.probed /\ ev'.code = l.code))
                    => disk'.links[i].status = l.status]_vars

\* C15: a sweep saves exactly once, as its last step and after the loop has
\* passed every endpoint of the document it loaded; the steps that leave the
\* sweep running (its start, each probe) save nothing
C15_SweepSavesOnceAtEnd ==
    [][/\ ((sweep' # sweep /\ sweep'.pc # "idle")
             => (disk' = disk /\ ev'.saved = "none"))
       /\ ((sweep.pc # "idle" /\ sweep'.pc = "idle")
             => (/\ sweep.pc = "save"
                 /\ sweep.i = Len(sweep.data.links) + 1
                 /\ ev'.op = "sweepSave"
                 /\ ev'.saved \in {"ok", "failed"}
                 /\ (ev'.saved = "ok" =>
                       (/\ disk'.links = sweep.data.links
                        /\ disk'.stats.lastUpdate = disk.stats.lastUpdate + 1))))]_vars

\* a sweep over two endpoints has just saved
C15_Witness ==
    /\ ev.op = "sweepSave"
    /\ ev.saved = "ok"
    /\ Len(disk.links) = 2
    /\ \A i \in 1..2 : disk.links[i].totalChecks >= 3

\* C16: whatever the outcome of a probe, the sweep's loop probes the endpoints
\* of the loaded document one by one in document order, each once, and goes
\* to the save after the last; no outcome stops or blocks it
C16_SweepProbesAll ==
    /\ [](/\ (sweep.pc = "loop" =>
                (/\ sweep.i \in 1..Len(sweep.data.links)
                 /\ \A o \in Outcomes : ENABLED SweepStep(o)))
           /\ (sweep.pc = "save" =>
                (/\ sweep.i = Len(sweep.data.links) + 1
                 /\ \A ok \in BOOLEAN : ENABLED SweepSave(ok))))
    /\ [][/\ ((sweep.pc = "idle" /\ sweep'.pc # "idle")
                 => (sweep'.pc = "loop" /\ sweep'.i = 1 /\ sweep'.data = disk))
           /\ \A o \in Outcomes :
                 (ev'.op = "sweepStep" /\ SweepStep(o)) =>
                    (/\ ev'.ping.probed
                     /\ ev'.code = sweep.data.links[sweep.i].code
                     /\ sweep'.i = sweep.i + 1
                     /\ Len(sweep'.data.links) = Len(sweep.data.links)
                     /\ \A j \in 1..Len(sweep.data.links) :
                           (j # sweep.i) =>
                               (sweep'.data.links[j] = sweep.data.links[j])
                     /\ sweep'.pc = (IF sweep.i < Len(sweep.data.links)
                                     THEN "loop" ELSE "save"))]_vars

\* a sweep over two endpoints is at its save although the probe of the first
\* endpoint failed
C16_Witness ==
    /\ sweep.pc = "save"
    /\ Len(sweep.data.links) = 2
    /\ sweep.data.links[1].status = "offline"
    /\ sweep.data.links[1].totalChecks >= 3
    /\ sweep.data.links[2].totalChecks >= 3

\* C17: a sweep that loads a document without endpoints probes nothing, saves
\* nothing and ends at once; the persisted document, lastUpdate included, is
\* as it was
C17_EmptySweepNoOp ==
    [][(ev'.op = "sweepStart" /\ Len(disk.links) = 0 /\ SweepStart)
          => (/\ ev'.resp = "NoLinks"
              /\ ~ev'.ping.probed
              /\ ev'.saved = "none"
              /\ sweep'.pc = "idle"
              /\ disk' = disk
              /\ disk'.stats.lastUpdate = disk.stats.lastUpdate)]_vars

\* a sweep has just found no endpoints in a document that earlier saves had
\* stamped
C17_Witness ==
    /\ ev.op = "sweepStart"
    /\ ev.resp = "NoLinks"
    /\ Len(disk.links) = 0
    /\ disk.stats.lastUpdate >= 2

\* C18: over an endpoint's life its persisted totalChecks never decreases
C18_TotalChecksMonotone ==
    [][\A l \in Persisted :
          \A i \in 1..Len(disk'.links) :
              (disk'.links[i].code = l.code /\ disk'.links[i].url = l.url)
                  => disk'.links[i].totalChecks >= l.totalChecks]_vars

\* C19: every persisted endpoint has 0 <= failCount <= totalChecks and
\* totalChecks >= 1, and its reported successRate lies between 0 and 100
C19_FailCountWithinChecks ==
    \A l \in Persisted :
        /\ 0 <= l.failCount
        /\ l.failCount <= l.totalChecks
        /\ l.totalChecks >= 1
        /\ successRate(l) >= 0
        /\ successRate(l) <= 100

\* the document holds an endpoint with one failure in three checks, reported
\* as 67, and an endpoint that has only ever failed, reported as 0
C19_Witness ==
    /\ \E l \in Persisted :
          l.failCount = 1 /\ l.totalChecks = 3 /\ successRate(l) = 67
    /\ \E l \in Persisted :
          l.failCount = l.totalChecks /\ successRate(l) = 0

\* C20: a persisted endpoint is online exactly when its failCount is 0, and
\* offline exactly when its failCount is at least 1
C20_OnlineIffNoFailures ==
    \A l \in Persisted :
        /\ l.status \in {"online", "offline"}
        /\ (l.status = "online") <=> (l.failCount = 0)
        /\ (l.status = "offline") <=> (l.failCount >= 1)

\* the document holds an endpoint that is online after a later probe and an
\* endpoint that is offline
C20_Witness ==
    /\ \E l \in Persisted :
          l.status = "online" /\ l.failCount = 0 /\ l.totalChecks >= 2
    /\ \E l \in Persisted : l.status = "offline" /\ l.failCount >= 1

====
